---- MODULE Spec2Model ----
(***************************************************************************)
(* Model of src/main.py: a polling loop that keeps one Shelly switch on    *)
(* from sunset until midnight.                                             *)
(*                                                                         *)
(* Time is a wall clock counted in ticks; a datetime is a record           *)
(* [date, tod] (calendar day, tick of the day) compared field by field as  *)
(* Python compares datetimes sharing one tzinfo.  Daylight-saving shifts   *)
(* are outside the model.                                                  *)
(***************************************************************************)
EXTENDS Integers, Sequences, FiniteSets, TLC

\* Bounds of the model.
TicksPerDay == 4
MaxDay == 2

MaxClock == TicksPerDay * (MaxDay + 1) - 1

Dates == 0..MaxDay
Tods == 0..(TicksPerDay - 1)
Instants == [date : Dates, tod : Tods]

\* A local that has not been assigned yet.
NoInstant == [date |-> -1, tod |-> 0]

\* Tick-of-day values the astronomical library may return for the sunset.
SunsetTods == 1..(TicksPerDay - 1)

VARIABLES
    pc,             \* position of the process
    clock,          \* the wall clock, in ticks (environment)
    device,         \* the switch's real output (environment)
    sunset,         \* main(): sunset
    now,            \* main(): now
    desired_on,     \* main(): desired_on
    current_state,  \* main(): current_state
    ops,            \* device operations attempted in the current iteration
    log,            \* logging calls made in the current iteration
    exit_status,    \* process exit status, -1 while running
    fault,          \* communication fault met in the current iteration
    extChanged,     \* someone else changed the device since the last query
    undisturbed,    \* no outside change between the last two queries
    prev            \* summary of the previous completed iteration

vars == <<pc, clock, device, sunset, now, desired_on, current_state, ops, log,
          exit_status, fault, extChanged, undisturbed, prev>>

----------------------------------------------------------------------------
\* datetime helpers

\* a <= b on datetimes
DtLe(a, b) == a.date < b.date \/ (a.date = b.date /\ a.tod <= b.tod)

\* a < b on datetimes
DtLt(a, b) == a.date < b.date \/ (a.date = b.date /\ a.tod < b.tod)

\* datetime.now(tz): the wall clock as a datetime
DatetimeNow(c) == [date |-> c \div TicksPerDay, tod |-> c % TicksPerDay]

\* date.today()
DateToday(c) == c \div TicksPerDay

\* datetime.combine(d, time(0, 0, 0)) + timedelta(days = 1)
MidnightWrong(n) == [date |-> n.date, tod |-> 0]
Midnight(n) == [date |-> n.date + 1, tod |-> 0]

\* should_be_on(now, sunset)
ShouldBeOnUntilNextMidnight(n, s) == DtLe(s, n) /\ DtLt(n, Midnight(s))
ShouldBeOnStrict(n, s) == DtLt(s, n) /\ DtLt(n, Midnight(n))
should_be_on(n, s) == DtLe(s, n) /\ DtLt(n, Midnight(n))

\* a logging call
Entry(level, msg) == [level |-> level, msg |-> msg]

NoPrev == [valid |-> FALSE, desired |-> FALSE, ncmds |-> 0, fault |-> "none"]

----------------------------------------------------------------------------
\* The process

Init ==
    /\ pc = "startup"
    /\ clock \in 0..(TicksPerDay - 1)
    /\ device \in BOOLEAN
    /\ sunset = NoInstant
    /\ now = NoInstant
    /\ desired_on = FALSE
    /\ current_state = FALSE
    /\ ops = <<>>
    /\ log = <<>>
    /\ exit_status = -1
    /\ fault = "none"
    /\ extChanged = FALSE
    /\ undisturbed = FALSE
    /\ prev = NoPrev

\* main(), lines 94-102: the sun times of today, computed once
Startup ==
    /\ pc = "startup"
    /\ \E t \in SunsetTods : sunset' = [date |-> DateToday(clock), tod |-> t]
    /\ log' = <<Entry("info", "sunrise"), Entry("info", "sunset")>>
    /\ pc' = "read_clock"
    /\ UNCHANGED <<clock, device, now, desired_on, current_state, ops,
                   exit_status, fault, extChanged, undisturbed, prev>>

\* main(), lines 105-107: read the clock, compute the desired state
ReadClockThenCommand ==
    /\ pc = "read_clock"
    /\ now' = DatetimeNow(clock)
    /\ desired_on' = should_be_on(DatetimeNow(clock), sunset)
    /\ ops' = <<>>
    /\ log' = <<>>
    /\ fault' = "none"
    /\ pc' = IF prev.valid THEN "reconcile" ELSE "get_state"
    /\ UNCHANGED <<clock, device, sunset, current_state, exit_status,
                   extChanged, undisturbed, prev>>
ReadClockRecomputes ==
    /\ pc = "read_clock"
    /\ now' = DatetimeNow(clock)
    /\ sunset' = IF DateToday(clock) # sunset.date
                    THEN [date |-> DateToday(clock), tod |-> sunset.tod]
                    ELSE sunset
    /\ desired_on' = should_be_on(DatetimeNow(clock), sunset')
    /\ ops' = <<>>
    /\ log' = <<>>
    /\ fault' = "none"
    /\ pc' = "get_state"
    /\ UNCHANGED <<clock, device, current_state, exit_status,
                   extChanged, undisturbed, prev>>
ReadClock ==
    /\ pc = "read_clock"
    /\ now' = DatetimeNow(clock)
    /\ desired_on' = should_be_on(DatetimeNow(clock), sunset)
    /\ ops' = <<>>
    /\ log' = <<>>
    /\ fault' = "none"
    /\ pc' = "get_state"
    /\ UNCHANGED <<clock, device, sunset, current_state, exit_status,
                   extChanged, undisturbed, prev>>

\* Outcomes the network may produce for the status query and for the command.
QueryOutcomes == {"ok", "http_error", "missing_field", "bad_json", "timeout"}
CommandOutcomes == {"ok", "malformed", "http_error", "timeout"}

\* sys.exit(code)
SysExitIgnored(code) == pc' = "sleep" /\ exit_status' = exit_status
SysExitZero(code) == pc' = "exited" /\ exit_status' = 0
SysExit(code) == pc' = "exited" /\ exit_status' = code

\* an exception nothing catches: traceback, exit status 1, no logging call
UncaughtException == pc' = "exited" /\ exit_status' = 1

\* line 46: status_data["switch:0"]["output"], d being the device's output
SwitchOutputCached(d) == IF prev.valid THEN current_state ELSE d
SwitchOutput(d) == d

\* get_current_state(auth), lines 30-50, called at position at and
\* returning to position ret
GetCurrentStateAt(outcome, at, ret) ==
    /\ pc = at
    /\ ops' = Append(ops, "query")
    /\ undisturbed' = ~extChanged
    /\ extChanged' = FALSE
    /\ CASE outcome = "timeout" ->
              \* requests.post raises (line 33)
              /\ log' = Append(log, Entry("debug", "getting_state"))
              /\ fault' = "query_timeout"
              /\ UncaughtException
              /\ UNCHANGED current_state
         [] outcome = "http_error" ->
              \* status_code != 200 (lines 39-41)
              /\ log' = log \o <<Entry("debug", "getting_state"),
                                 Entry("error", "failed_to_get_status")>>
              /\ fault' = "query_http"
              /\ SysExit(1)
              /\ UNCHANGED current_state
         [] outcome = "bad_json" ->
              \* response.json() raises (line 43)
              /\ log' = Append(log, Entry("debug", "getting_state"))
              /\ fault' = "query_bad_json"
              /\ UncaughtException
              /\ UNCHANGED current_state
         [] outcome = "missing_field" ->
              \* KeyError (lines 48-50)
              /\ log' = log \o <<Entry("debug", "getting_state"),
                                 Entry("debug", "status_response"),
                                 Entry("error", "unexpected_structure")>>
              /\ fault' = "query_missing_field"
              /\ SysExit(1)
              /\ UNCHANGED current_state
         [] outcome = "ok" ->
              /\ log' = log \o <<Entry("debug", "getting_state"),
                                 Entry("debug", "status_response")>>
              /\ current_state' = SwitchOutput(device)
              /\ pc' = ret
              /\ UNCHANGED <<fault, exit_status>>
    /\ UNCHANGED <<clock, device, sunset, now, desired_on, prev>>

\* main(), line 109: current_state = get_current_state(auth)
GetCurrentState(outcome) == GetCurrentStateAt(outcome, "get_state", "reconcile")

\* the name of a command in ops
CmdInverted(state) == IF state THEN "set_off" ELSE "set_on"
Cmd(state) == IF state THEN "set_on" ELSE "set_off"

\* set_switch_state(auth, state), lines 52-63, returning to position ret;
\* before holds the caller's logging call made just before the call
SetSwitchState(state, outcome, before, ret) ==
    /\ ops' = Append(ops, Cmd(state))
    /\ CASE outcome = "timeout" ->
              \* requests.post raises (line 59); the device may have acted
              /\ log' = log \o <<before, Entry("debug", "setting_state")>>
              /\ device' \in {device, state}
              /\ fault' = "cmd_timeout"
              /\ UncaughtException
         [] outcome = "http_error" ->
              /\ log' = log \o <<before, Entry("debug", "setting_state"),
                                 Entry("error", "failed_to_set")>>
              /\ device' = device
              /\ fault' = "cmd_http"
              /\ SysExit(1)
         [] outcome = "malformed" ->
              \* status 200 with an unexpected body: the body is never read
              /\ log' = log \o <<before, Entry("debug", "setting_state"),
                                 Entry("info", "set_successfully")>>
              /\ device' \in {device, state}
              /\ fault' = "cmd_malformed"
              /\ pc' = ret
              /\ UNCHANGED exit_status
         [] outcome = "ok" ->
              /\ log' = log \o <<before, Entry("debug", "setting_state"),
                                 Entry("info", "set_successfully")>>
              /\ device' = state
              /\ pc' = ret
              /\ UNCHANGED <<fault, exit_status>>

\* line 110: desired_on and not current_state
NeedOnAlways(desired, current) == desired
NeedOnWhenOn(desired, current) == desired /\ current
NeedOn(desired, current) == desired /\ ~current

\* line 114: not desired_on and current_state
NeedOffAlways(desired, current) == ~desired
NeedOff(desired, current) == ~desired /\ current

\* main(), lines 110-120: command the device on a mismatch
Reconcile(outcome) ==
    /\ pc = "reconcile"
    /\ IF NeedOn(desired_on, current_state)
         THEN SetSwitchState(TRUE, outcome, Entry("info", "turning_on"), "sleep")
         ELSE IF NeedOff(desired_on, current_state)
         THEN SetSwitchState(FALSE, outcome, Entry("info", "turning_off"), "sleep")
         ELSE /\ outcome = "ok"
              /\ log' = Append(log, Entry("debug", "no_action"))
              /\ pc' = "sleep"
              /\ UNCHANGED <<ops, device, fault, exit_status>>
    /\ UNCHANGED <<clock, sunset, now, desired_on, current_state, extChanged,
                   undisturbed, prev>>

\* the commands among the operations of an iteration
NumCmds(o) == Cardinality({i \in 1..Len(o) : o[i] # "query"})

\* main(), line 124 and the jump back to line 104
SleepThenExit ==
    /\ pc = "sleep"
    /\ pc' = "exited"
    /\ exit_status' = 0
    /\ prev' = [valid |-> TRUE, desired |-> desired_on, ncmds |-> NumCmds(ops),
                fault |-> fault]
    /\ UNCHANGED <<clock, device, sunset, now, desired_on, current_state, ops,
                   log, fault, extChanged, undisturbed>>
Sleep ==
    /\ pc = "sleep"
    /\ pc' = "read_clock"
    /\ prev' = [valid |-> TRUE, desired |-> desired_on, ncmds |-> NumCmds(ops),
                fault |-> fault]
    /\ UNCHANGED <<clock, device, sunset, now, desired_on, current_state, ops,
                   log, exit_status, fault, extChanged, undisturbed>>

\* Environment: time passes while the process runs
Tick ==
    /\ pc # "exited"
    /\ clock < MaxClock
    /\ clock' = clock + 1
    /\ UNCHANGED <<pc, device, sunset, now, desired_on, current_state, ops,
                   log, exit_status, fault, extChanged, undisturbed, prev>>

\* Environment: someone else switches the device
ExternalFlip ==
    /\ pc # "exited"
    /\ device' = ~device
    /\ extChanged' = TRUE
    /\ UNCHANGED <<pc, clock, sunset, now, desired_on, current_state, ops,
                   log, exit_status, fault, undisturbed, prev>>

Next ==
    \/ Startup
    \/ ReadClock
    \/ \E o \in QueryOutcomes : GetCurrentState(o)
    \/ \E o \in CommandOutcomes : Reconcile(o)
    \/ Sleep
    \/ Tick
    \/ ExternalFlip

Spec == Init /\ [][Next]_vars

----------------------------------------------------------------------------
\* The schedule evaluator on its own: should_be_on applied to any two instants

InitEval ==
    /\ pc = "eval"
    /\ now \in Instants
    /\ sunset \in Instants
    /\ desired_on = FALSE
    /\ clock = 0
    /\ device = FALSE
    /\ current_state = FALSE
    /\ ops = <<>>
    /\ log = <<>>
    /\ exit_status = -1
    /\ fault = "none"
    /\ extChanged = FALSE
    /\ undisturbed = FALSE
    /\ prev = NoPrev

\* a call of should_be_on(now, sunset), lines 83-91
Evaluate ==
    /\ pc = "eval"
    /\ desired_on' = should_be_on(now, sunset)
    /\ pc' = "evaluated"
    /\ UNCHANGED <<clock, device, sunset, now, current_state, ops, log,
                   exit_status, fault, extChanged, undisturbed, prev>>

\* the next call, with other arguments
NewArguments ==
    /\ pc = "evaluated"
    /\ now' \in Instants
    /\ sunset' \in Instants
    /\ desired_on' = FALSE
    /\ pc' = "eval"
    /\ UNCHANGED <<clock, device, current_state, ops, log, exit_status, fault,
                   extChanged, undisturbed, prev>>

NextEval == Evaluate \/ NewArguments

SpecEval == InitEval /\ [][NextEval]_vars

----------------------------------------------------------------------------
\* The one-shot helpers turn_on and turn_off, called on their own

InitHelpers ==
    /\ pc = "helper"
    /\ clock = 0
    /\ device \in BOOLEAN
    /\ sunset = NoInstant
    /\ now = NoInstant
    /\ desired_on = FALSE
    /\ current_state = FALSE
    /\ ops = <<>>
    /\ log = <<>>
    /\ exit_status = -1
    /\ fault = "none"
    /\ extChanged = FALSE
    /\ undisturbed = FALSE
    /\ prev = NoPrev

\* a caller invokes turn_on(auth) or turn_off(auth)
Invoke ==
    /\ pc \in {"helper", "turn_on_returned", "turn_off_returned"}
    /\ pc' \in {"turn_on", "turn_off"}
    /\ ops' = <<>>
    /\ log' = <<>>
    /\ fault' = "none"
    /\ UNCHANGED <<clock, device, sunset, now, desired_on, current_state,
                   exit_status, extChanged, undisturbed, prev>>

\* turn_on, line 67: current = get_current_state(auth)
TurnOnQuery(outcome) == GetCurrentStateAt(outcome, "turn_on", "turn_on_decide")

\* turn_on, line 68: not current
TurnOnNeededAlways(current) == TRUE
TurnOnNeeded(current) == ~current

\* turn_on, lines 68-72
TurnOnDecide(outcome) ==
    /\ pc = "turn_on_decide"
    /\ IF TurnOnNeeded(current_state)
         THEN SetSwitchState(TRUE, outcome, Entry("info", "off_turning_on"),
                             "turn_on_returned")
         ELSE /\ outcome = "ok"
              /\ log' = Append(log, Entry("info", "already_on"))
              /\ pc' = "turn_on_returned"
              /\ UNCHANGED <<ops, device, fault, exit_status>>
    /\ UNCHANGED <<clock, sunset, now, desired_on, current_state, extChanged,
                   undisturbed, prev>>

\* turn_off, line 76: current = get_current_state(auth)
TurnOffQuery(outcome) == GetCurrentStateAt(outcome, "turn_off", "turn_off_decide")

\* turn_off, line 77: current
TurnOffNeeded(current) == current

\* turn_off, lines 77-81
TurnOffDecide(outcome) ==
    /\ pc = "turn_off_decide"
    /\ IF TurnOffNeeded(current_state)
         THEN SetSwitchState(FALSE, outcome, Entry("info", "on_turning_off"),
                             "turn_off_returned")
         ELSE /\ outcome = "ok"
              /\ log' = Append(log, Entry("info", "already_off"))
              /\ pc' = "turn_off_returned"
              /\ UNCHANGED <<ops, device, fault, exit_status>>
    /\ UNCHANGED <<clock, sunset, now, desired_on, current_state, extChanged,
                   undisturbed, prev>>

NextHelpers ==
    \/ Invoke
    \/ \E o \in QueryOutcomes : TurnOnQuery(o)
    \/ \E o \in CommandOutcomes : TurnOnDecide(o)
    \/ \E o \in QueryOutcomes : TurnOffQuery(o)
    \/ \E o \in CommandOutcomes : TurnOffDecide(o)
    \/ Tick
    \/ ExternalFlip

SpecHelpers == InitHelpers /\ [][NextHelpers]_vars

----------------------------------------------------------------------------
\* Properties

\* an instant as a number of ticks since 00:00 of day 0
Lin(i) == i.date * TicksPerDay + i.tod

\* the status query of the current iteration succeeded and lines 110-120 ran
Decided == pc = "sleep" \/ (pc = "exited" /\ fault \in {"cmd_http", "cmd_timeout"})

HasLevel(l, level) == \E i \in 1..Len(l) : l[i].level = level

LastLevel(l) == IF Len(l) = 0 THEN "nothing" ELSE l[Len(l)].level

\* C1: in an iteration whose status query succeeded, set_switch_state is
\* invoked if and only if the desired state differs from the observed one,
\* and never more than once.
C1_CommandIffMismatch ==
    Decided => /\ (NumCmds(ops) = 1) <=> (desired_on # current_state)
               /\ NumCmds(ops) <= 1

C1_Witness ==
    /\ pc = "sleep"
    /\ desired_on # current_state
    /\ NumCmds(ops) = 1

C3_SameDay ==
    (pc = "evaluated" /\ now.date = sunset.date) =>
        (desired_on <=> Lin(sunset) <= Lin(now))

C3_Witness ==
    /\ pc = "evaluated"
    /\ now = sunset
    /\ desired_on

\* C4: should_be_on is false from the midnight that ends the sunset's date
\* up to the sunset of the next day.
C4_OffAfterMidnight ==
    (/\ pc = "evaluated"
     /\ Lin(now) >= (sunset.date + 1) * TicksPerDay
     /\ Lin(now) < Lin(sunset) + TicksPerDay) => ~desired_on

\* C5: an iteration whose now lies on the day after the sunset's date and
\* that observes the device on issues exactly one command, off.
C5_OffPastMidnight ==
    (/\ pc = "sleep"
     /\ now.date = sunset.date + 1
     /\ current_state) => ops = <<"query", "set_off">>

\* C6: after a non-success status or a missing field in the status query
\* the process has logged an error and is terminated, having made one query
\* and no command, and it stays so.
C6_QueryFailureFatal ==
    fault \in {"query_http", "query_missing_field"} =>
        /\ pc = "exited"
        /\ LastLevel(log) = "error"
        /\ ops = <<"query">>

C6_Witness ==
    /\ fault = "query_missing_field"
    /\ pc = "exited"
    /\ prev.valid

\* C7: after a non-success status of the command the process has logged an
\* error and is terminated with a non-zero status, without the success log
\* and without reaching the sleep.
C7_CommandFailureFatal ==
    fault = "cmd_http" =>
        /\ pc = "exited"
        /\ exit_status > 0
        /\ LastLevel(log) = "error"
        /\ Entry("info", "set_successfully") \notin {log[i] : i \in 1..Len(log)}
        /\ Len(ops) = 2 /\ ops[1] = "query" /\ ops[2] = Cmd(desired_on)

C7_Witness ==
    /\ fault = "cmd_http"
    /\ pc = "exited"
    /\ exit_status = 1

\* C8: a timeout or a malformed response on either call ends as a
\* non-success status does: an error is logged and the process terminates.
C8_TimeoutLikeHttpError ==
    fault \in {"query_timeout", "query_bad_json", "cmd_timeout", "cmd_malformed"} =>
        /\ pc = "exited"
        /\ HasLevel(log, "error")

\* C9: of two successive iterations with the same desired state, the first
\* without fault and with no outside change of the device from the first
\* query to the second, the second issues no command and the two together
\* at most one.
C9_SecondStepNoCommand ==
    (/\ Decided
     /\ prev.valid
     /\ prev.fault = "none"
     /\ prev.desired = desired_on
     /\ undisturbed) => /\ NumCmds(ops) = 0
                        /\ prev.ncmds + NumCmds(ops) <= 1

C9_Witness ==
    /\ pc = "sleep"
    /\ prev.valid
    /\ prev.fault = "none"
    /\ prev.desired = desired_on
    /\ undisturbed
    /\ prev.ncmds = 1
    /\ NumCmds(ops) = 0

\* the faults that end the process
FatalFaults == {"query_http", "query_missing_field", "query_timeout",
                "query_bad_json", "cmd_http", "cmd_timeout"}

\* C10: the process is terminated only through a fatal communication error
\* of the status query or of the command; while no call fails it runs.
C10_ExitOnlyOnFault ==
    /\ pc = "exited" => fault \in FatalFaults
    /\ exit_status # -1 => pc = "exited"

C10_Witness ==
    /\ pc = "sleep"
    /\ prev.valid
    /\ prev.fault = "none"
    /\ fault = "none"
    /\ now.date > sunset.date

\* the steps the position of the process may take
PcOrder == {<<"startup", "read_clock">>, <<"read_clock", "get_state">>,
            <<"get_state", "reconcile">>, <<"get_state", "exited">>,
            <<"reconcile", "sleep">>, <<"reconcile", "exited">>,
            <<"sleep", "read_clock">>}

\* the device operations made so far in the iteration, by position
OpsInOrder ==
    /\ pc = "get_state" => ops = <<>>
    /\ pc = "reconcile" => ops = <<"query">>
    /\ pc = "sleep" => /\ Len(ops) \in {1, 2}
                       /\ ops[1] = "query"
                       /\ Len(ops) = 2 => ops[2] \in {"set_on", "set_off"}

\* C11: an iteration makes one status query, then at most one command, then
\* one sleep, in that order: no command precedes the query of its iteration
\* and no query starts before the sleep of the iteration before has ended.
C11_QueryCommandSleep ==
    /\ []OpsInOrder
    /\ [][/\ pc' # pc => <<pc, pc'>> \in PcOrder
          /\ ops' # ops =>
                \/ pc = "read_clock" /\ ops' = <<>>
                \/ pc = "get_state" /\ ops' = Append(ops, "query")
                \/ pc = "reconcile" /\ Len(ops') = Len(ops) + 1
                                    /\ ops'[Len(ops')] # "query"]_vars

C11_Witness ==
    /\ pc = "get_state"
    /\ prev.valid
    /\ prev.ncmds = 1

\* C12: the sunset is computed once, before the first iteration, and no
\* iteration changes it afterwards, whatever the date of its now.
C12_SunsetComputedOnce ==
    /\ [](pc = "startup" <=> sunset = NoInstant)
    /\ [][/\ pc # "startup" => sunset' = sunset
          /\ pc' = "startup" => pc = "startup"]_vars

C12_Witness ==
    /\ pc = "reconcile"
    /\ now.date = sunset.date + 1
    /\ prev.valid

HasMsg(l, msg) == \E i \in 1..Len(l) : l[i].msg = msg

\* what an invocation of a helper has done once it decided
HelperDid ==
    /\ pc \in {"turn_on_decide", "turn_off_decide"} => ops = <<"query">>
    /\ pc = "turn_on_returned" =>
          ops = IF current_state THEN <<"query">> ELSE <<"query", "set_on">>
    /\ pc = "turn_off_returned" =>
          ops = IF current_state THEN <<"query", "set_off">> ELSE <<"query">>
    /\ (pc = "exited" /\ fault \in {"cmd_http", "cmd_timeout"}) =>
          \/ /\ HasMsg(log, "off_turning_on")
             /\ ~current_state
             /\ ops = <<"query", "set_on">>
          \/ /\ HasMsg(log, "on_turning_off")
             /\ current_state
             /\ ops = <<"query", "set_off">>
    /\ (pc = "exited" /\ fault \notin {"cmd_http", "cmd_timeout"}) =>
          ops = <<"query">>

\* C13: turn_on makes one status query and commands on if and only if the
\* observed state is off; turn_off makes one status query and commands off
\* if and only if the observed state is on; each issues at most one command
\* and neither reads nor computes the schedule.
C13_HelpersCommandWhenNeeded ==
    /\ []HelperDid
    /\ [][UNCHANGED <<sunset, now, desired_on>>]_vars

C13_Witness ==
    /\ pc = "turn_on_returned"
    /\ ~current_state
    /\ ops = <<"query", "set_on">>
    /\ device

\* C14: every command of the loop carries the desired state of its
\* iteration, which is the negation of the state observed in it.
C14_CommandIsDesired ==
    pc \in {"get_state", "reconcile", "sleep", "read_clock", "exited"} =>
        \A i \in 1..Len(ops) :
            /\ ops[i] = "set_on" => (desired_on /\ ~current_state)
            /\ ops[i] = "set_off" => (~desired_on /\ current_state)

C14_Witness ==
    /\ pc = "sleep"
    /\ ops = <<"query", "set_off">>
    /\ ~desired_on
    /\ current_state

\* C15: an iteration decides on the state its own query fetched, so a
\* device that someone else switched between two iterations against the
\* schedule is commanded back to the desired state by the next iteration.
C15_NoCachedState ==
    /\ (pc = "reconcile" /\ ~extChanged) => current_state = device
    /\ (/\ Decided
        /\ prev.valid
        /\ prev.desired = desired_on
        /\ ~undisturbed
        /\ current_state # desired_on) =>
            /\ Len(ops) = 2
            /\ ops[2] = IF desired_on THEN "set_on" ELSE "set_off"

C15_Witness ==
    /\ pc = "sleep"
    /\ prev.valid
    /\ prev.fault = "none"
    /\ prev.desired = desired_on
    /\ ~undisturbed
    /\ current_state # desired_on
    /\ NumCmds(ops) = 1
    /\ fault = "none"
    /\ device = desired_on

\* C16: at the end of an iteration without fault, the device not having
\* been switched by anyone else since the iteration's query, the device's
\* output is the desired state of the iteration.
C16_DeviceIsDesired ==
    (pc = "sleep" /\ fault = "none" /\ ~extChanged) => device = desired_on

C16_Witness ==
    /\ pc = "sleep"
    /\ fault = "none"
    /\ ~extChanged
    /\ ops = <<"query", "set_on">>
    /\ device

====
